---- MODULE Spec2Model ----
(***************************************************************************)
(* Model of the Madrid real-estate dashboard (app.py, data_loader.py,      *)
(* render.py): the filter engine, the metrics and aggregation engine, the  *)
(* st.cache_data memoization and the per-interaction pass of main().       *)
(*                                                                         *)
(* A DataFrame is a record [columns, rows]; rows is a sequence of records  *)
(* with the pandas index label in field "index" and one field per column.  *)
(* Floating-point numbers are modelled as exact rationals [n, d]; d = 0    *)
(* stands for the non-finite values (NaN = 0/0, +inf = 1/0, -inf = -1/0).  *)
(***************************************************************************)
EXTENDS Integers, Sequences, FiniteSets, TLC

VARIABLES
    csv_file,       \* the rows of analisis.csv
    csv_disk,       \* whether analisis.csv can be read, and the columns it has
    now,            \* the clock st.cache_data reads, in seconds
    rendered,       \* the parts of the page the current run has emitted
    df,             \* the DataFrame returned by load_data
    criteria,       \* the five filter arguments handed to apply_filters
    df_filtered,    \* the DataFrame returned by apply_filters
    pc,             \* position of the process
    session_state,  \* st.session_state: widget key -> value
    reset_btn,      \* the reset button was clicked for the coming run
    cache,          \* st.cache_data: function -> (key of hashed arguments -> entry)
    metrics,        \* the tuple render_metrics got from calculate_metrics
    df_with_m2,     \* the table the analysis and details tabs got from get_precio_m2
    precio_m2_df,   \* the local table of get_grouped_stats
    conclusions,    \* the local df_with_m2 of render_conclusions_tab
    stats,          \* the dict returned by get_grouped_stats
    error,          \* the exception that ended the run, if any
    call_log        \* history: the first call of apply_filters and whether
                    \* a call with other arguments has followed it

vars == <<csv_file, csv_disk, now, rendered, df, criteria, df_filtered, pc, session_state, reset_btn,
          cache, metrics, df_with_m2, precio_m2_df, conclusions, stats, error,
          call_log>>

----------------------------------------------------------------------------
(* Numbers *)

Abs(x) == IF x < 0 THEN -x ELSE x

RECURSIVE GCD(_, _)
GCD(a, b) == IF b = 0 THEN a ELSE GCD(b, a % b)

Sign(x) == IF x > 0 THEN 1 ELSE IF x < 0 THEN -1 ELSE 0

\* The float with value n/d, in lowest terms with a positive denominator.
Rat(n, d) ==
    IF d = 0 THEN [n |-> Sign(n), d |-> 0]
    ELSE LET g == GCD(Abs(n), Abs(d))
             s == Sign(n) * Sign(d)
         IN  [n |-> s * (Abs(n) \div g), d |-> Abs(d) \div g]

R(k) == Rat(k, 1)

NaN == Rat(0, 0)

IsFinite(x) == x.d # 0

\* x <= y on floats: every comparison with NaN is False.
RatLE(x, y) ==
    IF IsFinite(x) /\ IsFinite(y) THEN x.n * y.d <= y.n * x.d
    ELSE /\ x # NaN
         /\ y # NaN
         /\ ((x.d = 0 /\ x.n < 0) \/ (y.d = 0 /\ y.n > 0))

RatGE(x, y) == RatLE(y, x)

RatAdd(x, y) ==
    IF IsFinite(x) /\ IsFinite(y) THEN Rat(x.n * y.d + y.n * x.d, x.d * y.d)
    ELSE IF IsFinite(x) THEN y
    ELSE IF IsFinite(y) THEN x
    ELSE IF x = y THEN x ELSE NaN

\* x / y on floats (numpy semantics: a zero divisor gives inf or NaN).
RatDiv(x, y) ==
    IF IsFinite(x) /\ IsFinite(y) THEN Rat(x.n * y.d, x.d * y.n)
    ELSE IF IsFinite(x) THEN (IF y = NaN THEN NaN ELSE R(0))
    ELSE IF IsFinite(y) /\ x # NaN THEN Rat(x.n * (IF y.n < 0 THEN -1 ELSE 1), 0)
    ELSE NaN

----------------------------------------------------------------------------
(* DataFrames *)

NULL == "<NA>"

\* The columns of analisis.csv that the program reads. ascensor holds the
\* labels "True" and "False" for the booleans of the file.
BaseColumns ==
    {"precio", "metros", "habitaciones", "ubicacion", "vendedor",
     "ascensor", "planta", "numero_planta"}

\* The columns whose values are labels; a missing label is NULL.
StringColumns == {"ubicacion", "vendedor", "ascensor", "planta"}

\* The missing value of the integer column habitaciones.
NA == 0 - 1

\* Series.isna() at one value of a column.
isna(column, x) == IF column \in StringColumns THEN x = NULL ELSE x = NA

\* One listing: index label i and the columns of the CSV file.
Row(i, p, m, h, u, v, a, pl, np) ==
    [index |-> i, precio |-> p, metros |-> m, habitaciones |-> h,
     ubicacion |-> u, vendedor |-> v, ascensor |-> a, planta |-> pl,
     numero_planta |-> np]

DataFrame(cols, rs) == [columns |-> cols, rows |-> rs]

\* No table at all.
NoFrame == DataFrame({}, <<>>)

\* pd.read_csv: the rows of the file under a RangeIndex 0..n-1.
read_csv(values) ==
    DataFrame(BaseColumns,
              [i \in 1..Len(values) |->
                  Row(i - 1, values[i][1], values[i][2], values[i][3],
                      values[i][4], values[i][5], values[i][6], values[i][7],
                      values[i][8])])

\* load_data: the table read from the file.
load_data(file) == read_csv(file)

\* df[mask].reset_index(drop=True): the kept rows relabelled 0, 1, 2, ...
BoolIndex_reset_index(d, mask) ==
    LET kept[k \in 0..Len(d.rows)] ==
            IF k = 0 THEN <<>>
            ELSE IF mask[k]
            THEN Append(kept[k - 1],
                        [d.rows[k] EXCEPT !.index = Len(kept[k - 1])])
            ELSE kept[k - 1]
    IN  DataFrame(d.columns, kept[Len(d.rows)])

\* df[mask]: the rows whose mask is True, in the order of df.
\* mask is a boolean Series aligned with the rows of d.
BoolIndex(d, mask) ==
    LET kept[k \in 0..Len(d.rows)] ==
            IF k = 0 THEN <<>>
            ELSE IF mask[k] THEN Append(kept[k - 1], d.rows[k])
            ELSE kept[k - 1]
    IN  DataFrame(d.columns, kept[Len(d.rows)])

\* Series.isin(values)
isin(x, values) == x \in values

----------------------------------------------------------------------------
(* Filter engine *)

\* apply_filters with the selected rows returned last-first.
apply_filters_reversed(d, precio_range, metros_range, habitaciones, ubicaciones, vendedor) ==
    LET InRange(r) ==
            /\ RatGE(r.precio, precio_range[1])
            /\ RatLE(r.precio, precio_range[2])
            /\ RatGE(r.metros, metros_range[1])
            /\ RatLE(r.metros, metros_range[2])
        Hab(f) == [k \in 1..Len(f.rows) |-> isin(f.rows[k].habitaciones, habitaciones)]
        Ubi(f) == [k \in 1..Len(f.rows) |-> isin(f.rows[k].ubicacion, ubicaciones)]
        Ven(f) == [k \in 1..Len(f.rows) |-> isin(f.rows[k].vendedor, vendedor)]
        f0 == BoolIndex(d, [k \in 1..Len(d.rows) |-> InRange(d.rows[k])])
        f1 == IF habitaciones # {} THEN BoolIndex(f0, Hab(f0)) ELSE f0
        f2 == IF Cardinality(ubicaciones) > 0 THEN BoolIndex(f1, Ubi(f1)) ELSE f1
        f3 == IF vendedor # {} THEN BoolIndex(f2, Ven(f2)) ELSE f2
    IN  DataFrame(f3.columns,
                  [i \in 1..Len(f3.rows) |-> f3.rows[Len(f3.rows) + 1 - i]])

\* apply_filters with "<" instead of "<=" on the upper price bound.
apply_filters_exclusive(d, precio_range, metros_range, habitaciones, ubicaciones, vendedor) ==
    LET InRange(r) ==
            /\ RatGE(r.precio, precio_range[1])
            /\ RatLE(r.precio, precio_range[2]) /\ r.precio # precio_range[2]
            /\ RatGE(r.metros, metros_range[1])
            /\ RatLE(r.metros, metros_range[2])
        Hab(f) == [k \in 1..Len(f.rows) |-> isin(f.rows[k].habitaciones, habitaciones)]
        Ubi(f) == [k \in 1..Len(f.rows) |-> isin(f.rows[k].ubicacion, ubicaciones)]
        Ven(f) == [k \in 1..Len(f.rows) |-> isin(f.rows[k].vendedor, vendedor)]
        f0 == BoolIndex(d, [k \in 1..Len(d.rows) |-> InRange(d.rows[k])])
        f1 == IF habitaciones # {} THEN BoolIndex(f0, Hab(f0)) ELSE f0
        f2 == IF Cardinality(ubicaciones) > 0 THEN BoolIndex(f1, Ubi(f1)) ELSE f1
    IN  IF vendedor # {} THEN BoolIndex(f2, Ven(f2)) ELSE f2

\* apply_filters with the room mask applied to an empty list too.
apply_filters_empty_excludes(d, precio_range, metros_range, habitaciones, ubicaciones, vendedor) ==
    LET InRange(r) ==
            /\ RatGE(r.precio, precio_range[1])
            /\ RatLE(r.precio, precio_range[2])
            /\ RatGE(r.metros, metros_range[1])
            /\ RatLE(r.metros, metros_range[2])
        Hab(f) == [k \in 1..Len(f.rows) |-> isin(f.rows[k].habitaciones, habitaciones)]
        Ubi(f) == [k \in 1..Len(f.rows) |-> isin(f.rows[k].ubicacion, ubicaciones)]
        Ven(f) == [k \in 1..Len(f.rows) |-> isin(f.rows[k].vendedor, vendedor)]
        f0 == BoolIndex(d, [k \in 1..Len(d.rows) |-> InRange(d.rows[k])])
        f1 == BoolIndex(f0, Hab(f0))
        f2 == IF Cardinality(ubicaciones) > 0 THEN BoolIndex(f1, Ubi(f1)) ELSE f1
    IN  IF vendedor # {} THEN BoolIndex(f2, Ven(f2)) ELSE f2

\* apply_filters: the two range masks, then one isin mask per non-empty list.
\* The three lists are used only through their emptiness and membership, so
\* they are modelled as sets.
apply_filters(d, precio_range, metros_range, habitaciones, ubicaciones, vendedor) ==
    LET InRange(r) ==
            /\ RatGE(r.precio, precio_range[1])
            /\ RatLE(r.precio, precio_range[2])
            /\ RatGE(r.metros, metros_range[1])
            /\ RatLE(r.metros, metros_range[2])
        Hab(f) == [k \in 1..Len(f.rows) |-> isin(f.rows[k].habitaciones, habitaciones)]
        Ubi(f) == [k \in 1..Len(f.rows) |-> isin(f.rows[k].ubicacion, ubicaciones)]
        Ven(f) == [k \in 1..Len(f.rows) |-> isin(f.rows[k].vendedor, vendedor)]
        f0 == BoolIndex(d, [k \in 1..Len(d.rows) |-> InRange(d.rows[k])])
        f1 == IF habitaciones # {} THEN BoolIndex(f0, Hab(f0)) ELSE f0
        f2 == IF Cardinality(ubicaciones) > 0 THEN BoolIndex(f1, Ubi(f1)) ELSE f1
    IN  IF vendedor # {} THEN BoolIndex(f2, Ven(f2)) ELSE f2

----------------------------------------------------------------------------
(* Metrics and aggregation engine *)

\* df[column] as a Series: one value per row, in row order.
Column(d, column) == [k \in 1..Len(d.rows) |-> d.rows[k][column]]

\* Series.replace(0, 1) with max(x, 1) in its place.
replace_below(x, to_replace, value) == IF RatLE(x, value) THEN value ELSE x

\* Series.replace(0, 1) left out.
replace_nothing(x, to_replace, value) == x

\* Series.replace(to_replace, value), one element: only a value equal to
\* to_replace is substituted.
replace(x, to_replace, value) == IF x = to_replace THEN value ELSE x

\* Series.mean(): NaN entries are skipped; the mean of nothing is NaN.
mean(series) ==
    LET valid == { k \in 1..Len(series) : series[k] # NaN }
        sum[k \in 0..Len(series)] ==
            IF k = 0 THEN R(0)
            ELSE IF k \in valid THEN RatAdd(sum[k - 1], series[k])
            ELSE sum[k - 1]
    IN  IF valid = {} THEN NaN
        ELSE RatDiv(sum[Len(series)], R(Cardinality(valid)))

\* _df['precio'] / _df['metros'].replace(0, 1)
precio_por_metro(d) ==
    [k \in 1..Len(d.rows) |->
        RatDiv(d.rows[k].precio, replace(d.rows[k].metros, R(0), R(1)))]

\* df_copy['precio_m2'] = series, on the frame d itself.
assign(d, column, series) ==
    DataFrame(d.columns \cup {column},
              [k \in 1..Len(d.rows) |-> d.rows[k] @@ (column :> series[k])])

\* calculate_metrics with the last two values of the tuple exchanged.
calculate_metrics_swapped(_df) ==
    [_df |-> _df,
     ret |-> <<mean(Column(_df, "precio")), mean(Column(_df, "metros")),
               mean(precio_por_metro(_df))>>]

\* The body of calculate_metrics. Each function of the engine returns its
\* argument object as it is after the call (_df) beside its result (ret).
calculate_metrics(_df) ==
    [_df |-> _df,
     ret |-> <<mean(Column(_df, "precio")), mean(precio_por_metro(_df)),
               mean(Column(_df, "metros"))>>]

\* get_precio_m2 with the column assigned to _df itself, no copy taken.
get_precio_m2_inplace(_df) ==
    LET changed == assign(_df, "precio_m2", precio_por_metro(_df))
    IN  [_df |-> changed, ret |-> changed]

\* The body of get_precio_m2: a copy of _df with the column precio_m2.
get_precio_m2(_df) ==
    LET df_copy == _df
    IN  [_df |-> _df, ret |-> assign(df_copy, "precio_m2", precio_por_metro(df_copy))]

\* The distinct values of a column that are not null (dropna).
Keys(d, by) ==
    LET present == { d.rows[k][by] : k \in 1..Len(d.rows) }
    IN  { x \in present : ~isna(by, x) }

\* groupby(by)[column].mean() with the mean of the whole column in each entry.
groupby_mean_ungrouped(d, by, column) ==
    { (by :> key) @@ (column :> mean(Column(d, column))) : key \in Keys(d, by) }

\* df.groupby(by)[column].mean(): one entry per non-null key, holding the
\* mean of column over the rows with that key.
groupby_mean(d, by, column) ==
    LET group(key) == BoolIndex(d, [k \in 1..Len(d.rows) |-> d.rows[k][by] = key])
    IN  { (by :> key) @@ (column :> mean(Column(group(key), column))) : key \in Keys(d, by) }

\* The labels of the model in the order Python compares strings.
Collation ==
    <<"Agencia", "Arganzuela", "Barajas", "Carabanchel", "Centro", "Chamartin",
      "Chamberi", "Exterior", "False", "Hortaleza", "Interior", "Latina",
      "Moratalaz", "Particular", "Retiro", "Salamanca", "Tetuan", "True", "Usera">>

Position(label) == CHOOSE i \in 1..Len(Collation) : Collation[i] = label

\* a <= b on the keys of column by.
KeyLE(a, b, by) ==
    IF by \in StringColumns THEN Position(a) <= Position(b) ELSE a <= b

\* The entries in ascending order of their key (the key is field of each
\* entry and a value of column by): the order groupby gives its groups, and
\* the order sort_index gives a Series.
RECURSIVE sorted_by_key(_, _, _)
sorted_by_key(entries, field, by) ==
    IF entries = {} THEN <<>>
    ELSE LET first == CHOOSE e \in entries :
                          \A y \in entries : KeyLE(e[field], y[field], by)
         IN  <<first>> \o sorted_by_key(entries \ {first}, field, by)

\* groupby(by)[column].mean().reset_index(): the groups in key order.
reset_index(groups, by) == sorted_by_key(groups, by, by)

\* value_counts(dropna=False): the missing value is counted as a value too.
counts_dropna_false(d, column) ==
    { [index |-> key,
       count |-> R(Cardinality({ k \in 1..Len(d.rows) : d.rows[k][column] = key }))] :
      key \in { d.rows[k][column] : k \in 1..Len(d.rows) } }

\* The number of rows of each non-null value of a column.
counts(d, column) ==
    { [index |-> key,
       count |-> R(Cardinality({ k \in 1..Len(d.rows) : d.rows[k][column] = key }))] :
      key \in Keys(d, column) }

\* Series.sort_values(ascending=False), kind left at "quicksort", which is
\* not a stable sort: every order of the entries that is non-increasing in
\* column is a possible outcome, entries with equal values in any order.
RECURSIVE sort_values_descending(_, _)
sort_values_descending(entries, column) ==
    IF entries = {} THEN { <<>> }
    ELSE UNION { { <<e>> \o rest : rest \in sort_values_descending(entries \ {e}, column) } :
                 e \in { x \in entries : \A y \in entries : RatGE(x[column], y[column]) } }

\* .head(n)
head(series, n) == SubSeq(series, 1, IF Len(series) < n THEN Len(series) ELSE n)

\* The number of entries the top-10 aggregates keep.
TopN == 10

\* Series.value_counts(): sort=True sorts the counts with
\* sort_values(ascending=False); null values are not counted.
value_counts(d, column) == sort_values_descending(counts(d, column), "count")

\* sort_index() left out: the Series stays in the order of its counts.
sort_index_omitted(series, column) == series

\* Series.sort_index() of a value_counts result.
sort_index(series, column) ==
    sorted_by_key({ series[k] : k \in 1..Len(series) }, "index", column)

\* get_grouped_stats with precio_m2_vendedor derived from the grouped mean
\* price and the grouped mean area of each seller type.
get_grouped_stats_ratio_of_means(_df) ==
    LET copy == _df
        precio_m2_df_ == assign(copy, "precio_m2", precio_por_metro(copy))
    IN  [_df |-> _df,
         precio_m2_df |-> precio_m2_df_,
         ret |->
           { [habitacion_count |-> sort_index(hc, "habitaciones"),
              precio_hab |->
                  reset_index(groupby_mean(_df, "habitaciones", "precio"), "habitaciones"),
              ubicacion_count |-> head(uc, TopN),
              precio_ubicacion |-> head(pu, TopN),
              ascensor_counts |-> ac,
              planta_counts |-> head(plc, TopN),
              vendedor_count |-> vc,
              precio_vendedor |->
                  reset_index(groupby_mean(_df, "vendedor", "precio"), "vendedor"),
              precio_m2_vendedor |->
                  reset_index(
                      { [vendedor |-> e.vendedor,
                         precio_m2 |->
                            RatDiv(e.precio,
                                   (CHOOSE a \in groupby_mean(_df, "vendedor", "metros") :
                                        a.vendedor = e.vendedor).metros)] :
                        e \in groupby_mean(_df, "vendedor", "precio") },
                      "vendedor")] :
             hc \in value_counts(_df, "habitaciones"),
             uc \in value_counts(_df, "ubicacion"),
             pu \in sort_values_descending(
                        groupby_mean(_df, "ubicacion", "precio"), "precio"),
             ac \in value_counts(_df, "ascensor"),
             plc \in value_counts(_df, "planta"),
             vc \in value_counts(_df, "vendedor") }]

\* get_grouped_stats: its argument after the call, its local table
\* precio_m2_df and the set of dicts the call can return.
get_grouped_stats(_df) ==
    LET copy == _df
        precio_m2_df_ == assign(copy, "precio_m2", precio_por_metro(copy))
    IN  [_df |-> _df,
         precio_m2_df |-> precio_m2_df_,
         ret |->
           { [habitacion_count |-> sort_index(hc, "habitaciones"),
              precio_hab |->
                  reset_index(groupby_mean(_df, "habitaciones", "precio"), "habitaciones"),
              ubicacion_count |-> head(uc, TopN),
              precio_ubicacion |-> head(pu, TopN),
              ascensor_counts |-> ac,
              planta_counts |-> head(plc, TopN),
              vendedor_count |-> vc,
              precio_vendedor |->
                  reset_index(groupby_mean(_df, "vendedor", "precio"), "vendedor"),
              precio_m2_vendedor |->
                  reset_index(groupby_mean(precio_m2_df_, "vendedor", "precio_m2"),
                              "vendedor")] :
             hc \in value_counts(_df, "habitaciones"),
             uc \in value_counts(_df, "ubicacion"),
             pu \in sort_values_descending(
                        groupby_mean(_df, "ubicacion", "precio"), "precio"),
             ac \in value_counts(_df, "ascensor"),
             plc \in value_counts(_df, "planta"),
             vc \in value_counts(_df, "vendedor") }]

\* int(x): truncation towards zero.
int(x) == Sign(x.n) * (Abs(x.n) \div x.d)

\* Series.min() and Series.max() of a column without NaN entries.
min(series) ==
    CHOOSE x \in { series[k] : k \in 1..Len(series) } :
        \A k \in 1..Len(series) : RatLE(x, series[k])

max(series) ==
    CHOOSE x \in { series[k] : k \in 1..Len(series) } :
        \A k \in 1..Len(series) : RatGE(x, series[k])

\* The values a list or an array holds.
Values(list) == { list[k] : k \in 1..Len(list) }

\* series[mask]: the values at the positions in at, in the order of series.
SelectSeqByIndex(series, at) ==
    LET kept[k \in 0..Len(series)] ==
            IF k = 0 THEN <<>>
            ELSE IF k \in at THEN Append(kept[k - 1], series[k])
            ELSE kept[k - 1]
    IN  kept[Len(series)]

\* Series.unique(): the distinct values in the order of their first
\* occurrence.
unique(series) ==
    SelectSeqByIndex(series,
        { k \in 1..Len(series) : \A j \in 1..(k - 1) : series[j] # series[k] })

\* Series.dropna().
dropna(series) ==
    SelectSeqByIndex(series, { k \in 1..Len(series) : series[k] # NULL })

\* sorted(iterable) of numbers: a new list in ascending order, equal values
\* kept as many times as they occur.
RECURSIVE sorted(_)
sorted(list) ==
    IF list = <<>> THEN <<>>
    ELSE LET k == CHOOSE i \in 1..Len(list) :
                    /\ \A j \in 1..Len(list) : list[i] <= list[j]
                    /\ \A j \in 1..(i - 1) : list[j] # list[i]
         IN  <<list[k]>> \o sorted(SelectSeqByIndex(list, (1..Len(list)) \ {k}))

\* get_filter_options with the room counts left as unique() returns them.
get_filter_options_unsorted(d) ==
    [precio_min |-> int(min(Column(d, "precio"))),
     precio_max |-> int(max(Column(d, "precio"))),
     metros_min |-> int(min(Column(d, "metros"))),
     metros_max |-> int(max(Column(d, "metros"))),
     habitaciones_opts |-> unique(Column(d, "habitaciones")),
     ubicaciones_opts |-> unique(dropna(Column(d, "ubicacion"))),
     vendedor_opts |-> unique(Column(d, "vendedor"))]

\* get_filter_options: the seven values main() unpacks.
get_filter_options(d) ==
    [precio_min |-> int(min(Column(d, "precio"))),
     precio_max |-> int(max(Column(d, "precio"))),
     metros_min |-> int(min(Column(d, "metros"))),
     metros_max |-> int(max(Column(d, "metros"))),
     habitaciones_opts |-> sorted(unique(Column(d, "habitaciones"))),
     ubicaciones_opts |-> unique(dropna(Column(d, "ubicacion"))),
     vendedor_opts |-> unique(Column(d, "vendedor"))]

----------------------------------------------------------------------------
(* st.cache_data *)

\* The key st.cache_data makes of a call's arguments: a parameter whose name
\* begins with an underscore is not hashed, and _df is the only parameter of
\* calculate_metrics and of get_precio_m2.
calculate_metrics_key(_df) == <<>>

get_precio_m2_key(_df) == <<>>

\* A call of the decorated function fn: the stored value on a hit; on a miss
\* the body runs on the argument and its value is stored under the key (no
\* ttl, no max_entries: an entry stays for the life of the process). The
\* field computed_from records the argument the stored value was computed
\* from; the program keeps no such record.
cached_call(c, fn, key, arg, call) ==
    IF key \in DOMAIN c[fn]
    THEN [cache |-> c, _df |-> arg, ret |-> c[fn][key].value, hit |-> TRUE]
    ELSE [cache |-> [c EXCEPT ![fn] =
                        (key :> [value |-> call.ret, computed_from |-> arg]) @@ @],
          _df |-> call._df, ret |-> call.ret, hit |-> FALSE]

\* The validity of the entries of load_data and get_filter_options, seconds.
TTL == 3600

\* The argument main() calls load_data with.
Path == "analisis.csv"

\* The entries of one function that have not expired at time t.
Valid(entries, t, ttl) ==
    [k \in { j \in DOMAIN entries : t < entries[j].stored_at + ttl } |-> entries[k]]

\* A call of a function decorated with ttl, where every lookup re-reads the
\* file: no entry is ever taken as valid.
cached_call_ttl_never_valid(c, fn, key, call, t, ttl) ==
    IF call.error # ""
    THEN [cache |-> c, error |-> call.error, ret |-> call.ret, hit |-> FALSE]
    ELSE [cache |-> [c EXCEPT ![fn] =
                        (key :> [value |-> call.ret, stored_at |-> t])
                            @@ Valid(@, t, ttl)],
          error |-> "", ret |-> call.ret, hit |-> FALSE]

\* A call at time t of the function fn decorated with
\* @st.cache_data(ttl=ttl): an entry stored less than ttl seconds ago is
\* returned and the body does not run; otherwise the body runs (call is its
\* outcome), its exception propagates and nothing is stored, or its value is
\* stored with the time t, the expired entries being dropped.
cached_call_ttl(c, fn, key, call, t, ttl) ==
    IF key \in DOMAIN Valid(c[fn], t, ttl)
    THEN [cache |-> c, error |-> "", ret |-> c[fn][key].value, hit |-> TRUE]
    ELSE IF call.error # ""
    THEN [cache |-> c, error |-> call.error, ret |-> call.ret, hit |-> FALSE]
    ELSE [cache |-> [c EXCEPT ![fn] =
                        (key :> [value |-> call.ret, stored_at |-> t])
                            @@ Valid(@, t, ttl)],
          error |-> "", ret |-> call.ret, hit |-> FALSE]

----------------------------------------------------------------------------
(* Exceptions *)

\* d restricted to the columns cols.
Project(d, cols) ==
    DataFrame(cols,
              [k \in 1..Len(d.rows) |-> [c \in cols \cup {"index"} |-> d.rows[k][c]]])

\* The body of load_data run on the file on disk: the exception pd.read_csv
\* raises, or the table with the columns the file has.
load_data_call(disk, values) ==
    CASE disk.status = "missing" -> [error |-> "FileNotFoundError", ret |-> NoFrame]
      [] disk.status = "malformed" -> [error |-> "ParserError", ret |-> NoFrame]
      [] OTHER -> [error |-> "", ret |-> Project(load_data(values), disk.columns)]

\* Series.min() is NaN: the column has no entry that is a number.
AllNaN(d, column) == \A k \in 1..Len(d.rows) : d.rows[k][column] = NaN

\* The exception get_filter_options raises on d, "" if none: KeyError for a
\* column d lacks, ValueError for int() of a NaN minimum.
get_filter_options_raises(d) ==
    IF ~({"precio", "metros", "habitaciones", "ubicacion", "vendedor"} \subseteq d.columns)
    THEN "KeyError"
    ELSE IF AllNaN(d, "precio") \/ AllNaN(d, "metros") THEN "ValueError"
    ELSE ""

NoOptions ==
    [precio_min |-> 0, precio_max |-> 0, metros_min |-> 0, metros_max |-> 0,
     habitaciones_opts |-> <<>>, ubicaciones_opts |-> <<>>, vendedor_opts |-> <<>>]

\* The body of get_filter_options run on d: its exception or its tuple.
get_filter_options_call(d) ==
    IF get_filter_options_raises(d) # ""
    THEN [error |-> get_filter_options_raises(d), ret |-> NoOptions]
    ELSE [error |-> "", ret |-> get_filter_options(d)]

\* The exception get_grouped_stats raises on d, "" if none.
get_grouped_stats_raises(d) ==
    IF {"precio", "metros", "habitaciones", "ubicacion", "ascensor", "planta",
        "vendedor"} \subseteq d.columns
    THEN "" ELSE "KeyError"

\* render_analysis_tab selects the column numero_planta first.
render_analysis_tab_raises(d) ==
    IF "numero_planta" \in d.columns THEN "" ELSE "KeyError"

\* render_data_tab takes int() of the minimum, maximum, mean and median of
\* precio, metros and habitaciones, NaN on a table without rows.
render_data_tab_raises(d) ==
    IF Len(d.rows) = 0 \/ AllNaN(d, "precio") \/ AllNaN(d, "metros")
    THEN "ValueError" ELSE ""

\* render_conclusions_tab divides the seller counts by len(filtered_df).
render_conclusions_tab_raises(d) ==
    IF Len(d.rows) = 0 THEN "ZeroDivisionError" ELSE ""

----------------------------------------------------------------------------
(* Inputs of the filter engine *)

MaxRows == 3

Half == Rat(1, 2)

\* Listings the datasets of the filter specification are built from:
\* <<precio, metros, habitaciones, ubicacion, vendedor, ascensor, planta,
\*   numero_planta>>.
FilterPool ==
    { <<R(1), R(0), 1, "Centro", "Particular", "True", "Exterior", R(1)>>,
      <<R(2), R(2), 2, "Retiro", "Agencia", "False", "Exterior", R(2)>>,
      <<R(2), Half, 2, NULL, "Agencia", "True", "Interior", NaN>>,
      <<R(3), R(1), 3, "Centro", "Agencia", "True", "Exterior", R(3)>>,
      <<NaN, R(2), 2, "Retiro", "Particular", NULL, NULL, R(0)>> }

RECURSIVE SeqsUpTo(_, _)
SeqsUpTo(S, n) ==
    IF n = 0 THEN { <<>> }
    ELSE LET shorter == SeqsUpTo(S, n - 1)
         IN  shorter \cup { Append(s, x) : s \in shorter, x \in S }

PrecioRanges == { <<R(1), R(3)>>, <<R(2), R(3)>>, <<R(1), R(2)>>, <<R(3), R(1)>> }
MetrosRanges == { <<R(0), R(1)>>, <<R(1), R(2)>>, <<R(0), R(2)>>, <<R(2), R(0)>> }
HabitacionesLists == SUBSET {2, 3}
UbicacionesLists == { {}, {"Centro"}, {"Centro", "Retiro"}, {NULL}, {"Salamanca"} }
VendedorLists == SUBSET {"Particular", "Agencia"}

Criteria ==
    [precio_range : PrecioRanges, metros_range : MetrosRanges,
     habitaciones : HabitacionesLists, ubicaciones : UbicacionesLists,
     vendedor : VendedorLists]

NoCriteria ==
    [precio_range |-> <<R(0), R(0)>>, metros_range |-> <<R(0), R(0)>>,
     habitaciones |-> {}, ubicaciones |-> {}, vendedor |-> {}]

EmptyFrame == DataFrame(BaseColumns, <<>>)

NoSession == [k \in {} |-> FALSE]

EmptyCache ==
    [f \in {"load_data", "get_filter_options", "calculate_metrics", "get_precio_m2"} |->
        [k \in {} |-> FALSE]]

\* analisis.csv in place, well-formed, with every column the program reads.
WholeFile == [status |-> "ok", columns |-> BaseColumns]

NoOutput == [part \in {} |-> ""]

NoMetrics == <<NaN, NaN, NaN>>

NoStats ==
    [habitacion_count |-> <<>>, precio_hab |-> <<>>, ubicacion_count |-> <<>>,
     precio_ubicacion |-> <<>>, ascensor_counts |-> <<>>, planta_counts |-> <<>>,
     vendedor_count |-> <<>>, precio_vendedor |-> <<>>, precio_m2_vendedor |-> <<>>]

\* No call of apply_filters has been made.
NoCalls ==
    [called |-> FALSE,
     first |-> [df |-> NoFrame, criteria |-> NoCriteria, ret |-> NoFrame],
     other |-> FALSE]

\* The history after apply_filters(d, c) has returned ret.
Logged(log, d, c, ret) ==
    IF ~log.called
    THEN [called |-> TRUE, first |-> [df |-> d, criteria |-> c, ret |-> ret],
          other |-> FALSE]
    ELSE IF d = log.first.df /\ c = log.first.criteria THEN log
    ELSE [log EXCEPT !.other = TRUE]

----------------------------------------------------------------------------
(* SpecFilter: apply_filters called on every dataset with every criteria *)

InitFilter ==
    /\ csv_file \in SeqsUpTo(FilterPool, MaxRows)
    /\ csv_disk = WholeFile
    /\ now = 0
    /\ rendered = NoOutput
    /\ df = load_data(csv_file)
    /\ criteria = NoCriteria
    /\ df_filtered = EmptyFrame
    /\ pc = "loaded"
    /\ session_state = NoSession
    /\ reset_btn = FALSE
    /\ cache = EmptyCache
    /\ metrics = NoMetrics
    /\ df_with_m2 = EmptyFrame
    /\ precio_m2_df = EmptyFrame
    /\ conclusions = EmptyFrame
    /\ stats = NoStats
    /\ error = ""
    /\ call_log = NoCalls

CallApplyFilters ==
    /\ pc = "loaded"
    /\ \E c \in Criteria :
        /\ criteria' = c
        /\ df_filtered' = apply_filters(df, c.precio_range, c.metros_range,
                                        c.habitaciones, c.ubicaciones, c.vendedor)
    /\ pc' = "filtered"
    /\ UNCHANGED <<csv_file, csv_disk, now, rendered, df, session_state, reset_btn,
                   cache, metrics, df_with_m2, precio_m2_df, conclusions, stats,
                   error, call_log>>

NextFilter == CallApplyFilters

SpecFilter == InitFilter /\ [][NextFilter]_vars

----------------------------------------------------------------------------
(* Claims about apply_filters (SpecFilter) *)

Rows(d) == { d.rows[k] : k \in 1..Len(d.rows) }

InClosed(x, range) == RatGE(x, range[1]) /\ RatLE(x, range[2])

Selected(x, list) == list = {} \/ x \in list

\* C1: the output of apply_filters is a sub-sequence of the input rows: every
\* output row is the input row with the same index label, no row appears
\* twice, and the output keeps the relative order of the input.
C1_OutputIsSubsequence ==
    pc = "filtered" =>
        /\ df_filtered.columns = df.columns
        /\ \A k \in 1..Len(df_filtered.rows) :
            LET r == df_filtered.rows[k]
            IN  /\ r.index \in 0..(Len(df.rows) - 1)
                /\ df.rows[r.index + 1] = r
                /\ \A j \in 1..(k - 1) : df_filtered.rows[j].index < r.index

C1_Witness ==
    /\ pc = "filtered"
    /\ Len(df_filtered.rows) = 2
    /\ Len(df.rows) = 3
    /\ df_filtered.rows[1] # df_filtered.rows[2]

\* C2: both range predicates are always applied with inclusive bounds: no
\* output row has its price or its area outside the closed range, and an input
\* row whose price and area sit on a bound of a (non-empty) range is kept
\* whenever the categorical lists accept it.
C2_RangesInclusiveAlwaysApplied ==
    pc = "filtered" =>
        /\ \A r \in Rows(df_filtered) :
            /\ InClosed(r.precio, criteria.precio_range)
            /\ InClosed(r.metros, criteria.metros_range)
        /\ \A r \in Rows(df) :
            ( /\ r.precio \in {criteria.precio_range[1], criteria.precio_range[2]}
              /\ r.metros \in {criteria.metros_range[1], criteria.metros_range[2]}
              /\ RatLE(criteria.precio_range[1], criteria.precio_range[2])
              /\ RatLE(criteria.metros_range[1], criteria.metros_range[2])
              /\ Selected(r.habitaciones, criteria.habitaciones)
              /\ Selected(r.ubicacion, criteria.ubicaciones)
              /\ Selected(r.vendedor, criteria.vendedor) )
            => r \in Rows(df_filtered)

C2_Witness ==
    /\ pc = "filtered"
    /\ criteria.habitaciones # {}
    /\ criteria.vendedor # {}
    /\ \E r \in Rows(df_filtered) :
        /\ r.precio = criteria.precio_range[2]
        /\ r.metros = criteria.metros_range[1]
    /\ \E r \in Rows(df) :
        /\ ~InClosed(r.precio, criteria.precio_range)
        /\ Selected(r.habitaciones, criteria.habitaciones)
        /\ Selected(r.vendedor, criteria.vendedor)
        /\ r \notin Rows(df_filtered)

\* C3: for rooms, location and seller type: a non-empty list keeps only rows
\* whose field is in the list, an empty list excludes no row, and every input
\* row inside both ranges that each list accepts (empty, or holding the row's
\* field) is in the output.
C3_CategoricalMembership ==
    pc = "filtered" =>
        /\ criteria.habitaciones # {} =>
            \A r \in Rows(df_filtered) : r.habitaciones \in criteria.habitaciones
        /\ criteria.ubicaciones # {} =>
            \A r \in Rows(df_filtered) : r.ubicacion \in criteria.ubicaciones
        /\ criteria.vendedor # {} =>
            \A r \in Rows(df_filtered) : r.vendedor \in criteria.vendedor
        /\ \A r \in Rows(df) :
            ( /\ InClosed(r.precio, criteria.precio_range)
              /\ InClosed(r.metros, criteria.metros_range)
              /\ Selected(r.habitaciones, criteria.habitaciones)
              /\ Selected(r.ubicacion, criteria.ubicaciones)
              /\ Selected(r.vendedor, criteria.vendedor) )
            => r \in Rows(df_filtered)

\* Rooms [1, 2, 3] under the empty room list and a location list: the rows
\* with 1 and 3 rooms stay, whatever their room count.
C3_Witness ==
    /\ pc = "filtered"
    /\ criteria.habitaciones = {}
    /\ criteria.ubicaciones # {}
    /\ Len(df.rows) = 3
    /\ [k \in 1..3 |-> df.rows[k].habitaciones] = <<1, 2, 3>>
    /\ Len(df_filtered.rows) = 2
    /\ df_filtered.rows[1].habitaciones = 1

----------------------------------------------------------------------------
(* Spec: one browser session of the dashboard. A run of main() is split in  *)
(* three steps (sidebar and filter, metrics header, tabs); between runs the *)
(* user acts on one widget, which stores the new value under the widget's   *)
(* key and starts the next run.                                             *)

MaxSessionRows == 2

\* Listings the datasets of a session are built from.
SessionPool ==
    { <<R(3), R(2), 1, "Centro", "Particular", "True", "Exterior", R(1)>>,
      <<R(4), R(2), 2, "Retiro", "Agencia", "True", "Exterior", R(2)>>,
      <<R(3), R(0), 2, NULL, "Agencia", "True", "Exterior", NaN>>,
      <<R(1), Half, 1, "Retiro", "Particular", "True", "Exterior", R(0)>> }

\* Prices [100000, 200000, 300000] with areas [50, 0, 100].
ScenarioA ==
    << <<R(100000), R(50), 1, "Centro", "Particular", "True", "Exterior", R(1)>>,
       <<R(200000), R(0), 2, "Retiro", "Agencia", "False", "Interior", R(0)>>,
       <<R(300000), R(100), 3, "Centro", "Agencia", "True", "Exterior", R(4)>> >>

SessionFiles == (SeqsUpTo(SessionPool, MaxSessionRows) \ { <<>> }) \cup {ScenarioA}

Init ==
    /\ csv_file \in SessionFiles
    /\ csv_disk = WholeFile
    /\ now = 0
    /\ rendered = NoOutput
    /\ df = NoFrame
    /\ criteria = NoCriteria
    /\ df_filtered = NoFrame
    /\ pc = "run"
    /\ session_state = NoSession
    /\ reset_btn = FALSE
    /\ cache = EmptyCache
    /\ metrics = NoMetrics
    /\ df_with_m2 = NoFrame
    /\ precio_m2_df = NoFrame
    /\ conclusions = NoFrame
    /\ stats = NoStats
    /\ error = ""
    /\ call_log = NoCalls

\* The values main() gives the five filter keys by default and on a reset.
Defaults(o) ==
    [precio_slider |-> <<R(o.precio_min), R(o.precio_max)>>,
     metros_slider |-> <<R(o.metros_min), R(o.metros_max)>>,
     habitaciones_multiselect |-> Values(o.habitaciones_opts),
     ubicacion_multiselect |-> Values(o.ubicaciones_opts),
     vendedor_multiselect |-> Values(o.vendedor_opts)]

\* The default initialisation without its test for the key.
SetDefault_overwrites(state, values) ==
    [k \in DOMAIN state \cup DOMAIN values |->
        IF k \in DOMAIN values THEN values[k] ELSE state[k]]

\* session_state with each key of values that it lacks set from values.
SetDefault(state, values) ==
    [k \in DOMAIN state \cup DOMAIN values |->
        IF k \in DOMAIN state THEN state[k] ELSE values[k]]

\* An assignment to session_state that leaves an existing key as it is.
Assign_keeps_existing(state, values) ==
    [k \in DOMAIN state \cup DOMAIN values |->
        IF k \in DOMAIN state THEN state[k] ELSE values[k]]

\* session_state with every key of values overwritten.
Assign(state, values) ==
    [k \in DOMAIN state \cup DOMAIN values |->
        IF k \in DOMAIN values THEN values[k] ELSE state[k]]

\* The parts of the page, in the order main() emits them.
Views == {"overview", "analysis", "details", "data", "conclusions"}

Parts == {"title", "sidebar", "metrics", "footer"} \cup Views

\* The output of a run after part has been emitted, to the end or up to the
\* statement that raised.
Emit(out, part, state) == (part :> state) @@ out

\* main() with apply_filters run on the table get_precio_m2 has memoized, once
\* there is one, in place of the table load_data returned.
MainSidebar_filters_memoized_table ==
    /\ pc = "run"
    /\ reset_btn' = FALSE
    /\ LET l == cached_call_ttl(cache, "load_data", Path,
                                load_data_call(csv_disk, csv_file), now, TTL)
           d == l.ret
           o == cached_call_ttl(l.cache, "get_filter_options", d,
                                get_filter_options_call(d), now, TTL)
           titled == Emit(NoOutput, "title", "complete")
           s1 == SetDefault(session_state, [reset_clicked |-> FALSE])
           s2 == IF reset_btn THEN Assign(s1, [reset_clicked |-> TRUE]) ELSE s1
       IN  /\ df' = d
           /\ IF l.error # ""
              THEN /\ cache' = l.cache
                   /\ error' = l.error
                   /\ rendered' = titled
                   /\ pc' = "idle"
                   /\ UNCHANGED <<session_state, criteria, df_filtered, call_log>>
              ELSE /\ cache' = o.cache
                   /\ IF o.error # ""
                      THEN /\ error' = o.error
                           /\ rendered' = titled
                           /\ pc' = "idle"
                           /\ UNCHANGED <<session_state, criteria, df_filtered,
                                          call_log>>
                      ELSE IF s2.reset_clicked
                      THEN /\ session_state' =
                                Assign(Assign(s2, Defaults(o.ret)),
                                       [reset_clicked |-> FALSE])
                           /\ rendered' = Emit(titled, "sidebar", "partial")
                           /\ pc' = "run"
                           /\ UNCHANGED <<criteria, df_filtered, error, call_log>>
                      ELSE LET s3 == SetDefault(s2, Defaults(o.ret))
                           IN  /\ session_state' = s3
                               /\ criteria' =
                                    [precio_range |-> s3.precio_slider,
                                     metros_range |-> s3.metros_slider,
                                     habitaciones |-> s3.habitaciones_multiselect,
                                     ubicaciones |-> s3.ubicacion_multiselect,
                                     vendedor |-> s3.vendedor_multiselect]
                               /\ df_filtered' =
                                    apply_filters(IF <<>> \in DOMAIN cache["get_precio_m2"]
                                                  THEN cache["get_precio_m2"][<<>>].value
                                                  ELSE d,
                                                  s3.precio_slider, s3.metros_slider,
                                                  s3.habitaciones_multiselect,
                                                  s3.ubicacion_multiselect,
                                                  s3.vendedor_multiselect)
                               /\ call_log' =
                                    Logged(call_log, d, criteria', df_filtered')
                               /\ rendered' = Emit(titled, "sidebar", "complete")
                               /\ pc' = "filtered"
                               /\ UNCHANGED error
    /\ UNCHANGED <<csv_file, csv_disk, now, metrics, df_with_m2, precio_m2_df,
                   conclusions, stats>>

\* main() from the title to the filtered count in the sidebar: the title,
\* load_data and get_filter_options (an exception of either ends the run),
\* the reset button, the default values, the widgets, apply_filters. A
\* pending reset overwrites the five filter keys and restarts the run
\* (st.rerun) before any widget is created.
MainSidebar ==
    /\ pc = "run"
    /\ reset_btn' = FALSE
    /\ LET l == cached_call_ttl(cache, "load_data", Path,
                                load_data_call(csv_disk, csv_file), now, TTL)
           d == l.ret
           o == cached_call_ttl(l.cache, "get_filter_options", d,
                                get_filter_options_call(d), now, TTL)
           titled == Emit(NoOutput, "title", "complete")
           s1 == SetDefault(session_state, [reset_clicked |-> FALSE])
           s2 == IF reset_btn THEN Assign(s1, [reset_clicked |-> TRUE]) ELSE s1
       IN  /\ df' = d
           /\ IF l.error # ""
              THEN /\ cache' = l.cache
                   /\ error' = l.error
                   /\ rendered' = titled
                   /\ pc' = "idle"
                   /\ UNCHANGED <<session_state, criteria, df_filtered, call_log>>
              ELSE /\ cache' = o.cache
                   /\ IF o.error # ""
                      THEN /\ error' = o.error
                           /\ rendered' = titled
                           /\ pc' = "idle"
                           /\ UNCHANGED <<session_state, criteria, df_filtered,
                                          call_log>>
                      ELSE IF s2.reset_clicked
                      THEN /\ session_state' =
                                Assign(Assign(s2, Defaults(o.ret)),
                                       [reset_clicked |-> FALSE])
                           /\ rendered' = Emit(titled, "sidebar", "partial")
                           /\ pc' = "run"
                           /\ UNCHANGED <<criteria, df_filtered, error, call_log>>
                      ELSE LET s3 == SetDefault(s2, Defaults(o.ret))
                           IN  /\ session_state' = s3
                               /\ criteria' =
                                    [precio_range |-> s3.precio_slider,
                                     metros_range |-> s3.metros_slider,
                                     habitaciones |-> s3.habitaciones_multiselect,
                                     ubicaciones |-> s3.ubicacion_multiselect,
                                     vendedor |-> s3.vendedor_multiselect]
                               /\ df_filtered' =
                                    apply_filters(d, s3.precio_slider, s3.metros_slider,
                                                  s3.habitaciones_multiselect,
                                                  s3.ubicacion_multiselect,
                                                  s3.vendedor_multiselect)
                               /\ call_log' =
                                    Logged(call_log, d, criteria', df_filtered')
                               /\ rendered' = Emit(titled, "sidebar", "complete")
                               /\ pc' = "filtered"
                               /\ UNCHANGED error
    /\ UNCHANGED <<csv_file, csv_disk, now, metrics, df_with_m2, precio_m2_df,
                   conclusions, stats>>

\* render_metrics: the memoized calculate_metrics and the four metrics of
\* the first row, then get_grouped_stats and the two seller counts.
RenderMetrics ==
    /\ pc = "filtered"
    /\ LET m == cached_call(cache, "calculate_metrics",
                            calculate_metrics_key(df_filtered), df_filtered,
                            calculate_metrics(df_filtered))
           g == get_grouped_stats(m._df)
       IN  /\ cache' = m.cache
           /\ metrics' = m.ret
           /\ IF get_grouped_stats_raises(m._df) # ""
              THEN /\ error' = get_grouped_stats_raises(m._df)
                   /\ rendered' = Emit(rendered, "metrics", "partial")
                   /\ pc' = "idle"
                   /\ df_filtered' = m._df
                   /\ UNCHANGED <<precio_m2_df, stats>>
              ELSE /\ precio_m2_df' = g.precio_m2_df
                   /\ stats' \in g.ret
                   /\ df_filtered' = g._df
                   /\ rendered' = Emit(rendered, "metrics", "complete")
                   /\ pc' = "metrics"
                   /\ UNCHANGED error
    /\ UNCHANGED <<csv_file, csv_disk, now, df, criteria, session_state, reset_btn,
                   df_with_m2, conclusions, call_log>>

\* The five tabs and the footer. The analysis tab selects numero_planta, then
\* calls the memoized get_precio_m2, as the details tab does; the data tab
\* takes int() of the minimum of each column, which raises ValueError on an
\* empty table and ends the run before the conclusions tab; the conclusions
\* tab builds its own df_with_m2.
RenderTabs ==
    /\ pc = "metrics"
    /\ LET t == cached_call(cache, "get_precio_m2",
                            get_precio_m2_key(df_filtered), df_filtered,
                            get_precio_m2(df_filtered))
           g == get_grouped_stats(t._df)
           overview == Emit(rendered, "overview", "complete")
           details == Emit(Emit(overview, "analysis", "complete"), "details", "complete")
       IN  IF render_analysis_tab_raises(df_filtered) # ""
           THEN /\ error' = render_analysis_tab_raises(df_filtered)
                /\ rendered' = Emit(overview, "analysis", "partial")
                /\ UNCHANGED <<cache, df_with_m2, df_filtered, conclusions>>
           ELSE /\ cache' = t.cache
                /\ df_with_m2' = t.ret
                /\ df_filtered' = g._df
                /\ IF render_data_tab_raises(g._df) # ""
                   THEN /\ error' = render_data_tab_raises(g._df)
                        /\ rendered' = Emit(details, "data", "partial")
                        /\ UNCHANGED conclusions
                   ELSE IF render_conclusions_tab_raises(g._df) # ""
                   THEN /\ error' = render_conclusions_tab_raises(g._df)
                        /\ rendered' =
                             Emit(Emit(details, "data", "complete"),
                                  "conclusions", "partial")
                        /\ UNCHANGED conclusions
                   ELSE /\ conclusions' =
                             assign(g._df, "precio_m2", precio_por_metro(g._df))
                        /\ rendered' =
                             Emit(Emit(Emit(details, "data", "complete"),
                                       "conclusions", "complete"),
                                  "footer", "complete")
                        /\ UNCHANGED error
    /\ pc' = "idle"
    /\ UNCHANGED <<csv_file, csv_disk, now, df, criteria, session_state, reset_btn,
                   metrics, precio_m2_df, stats, call_log>>

\* What a new run starts from: the script's locals and output are gone.
StartRun ==
    /\ pc' = "run"
    /\ df_filtered' = NoFrame
    /\ criteria' = NoCriteria
    /\ metrics' = NoMetrics
    /\ df_with_m2' = NoFrame
    /\ precio_m2_df' = NoFrame
    /\ conclusions' = NoFrame
    /\ stats' = NoStats
    /\ error' = ""
    /\ rendered' = NoOutput
    /\ UNCHANGED <<csv_file, csv_disk, now, df, cache, call_log>>

\* The positions a slider offers that the model lets the user choose.
Stops(d, column, lo, hi) ==
    {R(lo), R(hi)} \cup
    { R(int(d.rows[k][column])) : k \in 1..Len(d.rows) }

Options == get_filter_options(df)

ChangePrecioSlider ==
    /\ pc = "idle"
    /\ "sidebar" \in DOMAIN rendered
    /\ \E lo, hi \in Stops(df, "precio", Options.precio_min, Options.precio_max) :
        /\ RatLE(lo, hi)
        /\ <<lo, hi>> # session_state.precio_slider
        /\ session_state' = [session_state EXCEPT !.precio_slider = <<lo, hi>>]
    /\ StartRun
    /\ UNCHANGED reset_btn

ChangeMetrosSlider ==
    /\ pc = "idle"
    /\ "sidebar" \in DOMAIN rendered
    /\ \E lo, hi \in Stops(df, "metros", Options.metros_min, Options.metros_max) :
        /\ RatLE(lo, hi)
        /\ <<lo, hi>> # session_state.metros_slider
        /\ session_state' = [session_state EXCEPT !.metros_slider = <<lo, hi>>]
    /\ StartRun
    /\ UNCHANGED reset_btn

ChangeHabitaciones ==
    /\ pc = "idle"
    /\ "sidebar" \in DOMAIN rendered
    /\ \E sel \in SUBSET Values(Options.habitaciones_opts) :
        /\ sel # session_state.habitaciones_multiselect
        /\ session_state' = [session_state EXCEPT !.habitaciones_multiselect = sel]
    /\ StartRun
    /\ UNCHANGED reset_btn

ChangeUbicacion ==
    /\ pc = "idle"
    /\ "sidebar" \in DOMAIN rendered
    /\ \E sel \in SUBSET Values(Options.ubicaciones_opts) :
        /\ sel # session_state.ubicacion_multiselect
        /\ session_state' = [session_state EXCEPT !.ubicacion_multiselect = sel]
    /\ StartRun
    /\ UNCHANGED reset_btn

ChangeVendedor ==
    /\ pc = "idle"
    /\ "sidebar" \in DOMAIN rendered
    /\ \E sel \in SUBSET Values(Options.vendedor_opts) :
        /\ sel # session_state.vendedor_multiselect
        /\ session_state' = [session_state EXCEPT !.vendedor_multiselect = sel]
    /\ StartRun
    /\ UNCHANGED reset_btn

ClickReset ==
    /\ pc = "idle"
    /\ "sidebar" \in DOMAIN rendered
    /\ reset_btn' = TRUE
    /\ StartRun
    /\ UNCHANGED session_state

Next ==
    \/ MainSidebar
    \/ RenderMetrics
    \/ RenderTabs
    \/ ChangePrecioSlider
    \/ ChangeMetrosSlider
    \/ ChangeHabitaciones
    \/ ChangeUbicacion
    \/ ChangeVendedor
    \/ ClickReset

Spec == Init /\ [][Next]_vars

----------------------------------------------------------------------------
(* Claims about the metrics engine and its memoization (Spec) *)

\* The entries st.cache_data holds for calculate_metrics.
MetricsEntries ==
    { cache["calculate_metrics"][k] : k \in DOMAIN cache["calculate_metrics"] }

\* The derived tables of the current run, one per place that builds one.
DerivedRows == Rows(df_with_m2) \cup Rows(precio_m2_df) \cup Rows(conclusions)

Areas(d) == { d.rows[k].metros : k \in 1..Len(d.rows) }

\* price / area with an area of exactly 0 replaced by 1.
PerRow(r) == IF r.metros = R(0) THEN r.precio ELSE RatDiv(r.precio, r.metros)

\* price / max(area, 1).
PerRowMax(r) ==
    RatDiv(r.precio, IF RatLE(r.metros, R(1)) THEN R(1) ELSE r.metros)

\* (sum over the rows of d of the per-row value) / (number of rows of d).
MeanPerRow(d) ==
    LET sum[k \in 0..Len(d.rows)] ==
            IF k = 0 THEN R(0) ELSE RatAdd(sum[k - 1], PerRow(d.rows[k]))
    IN  RatDiv(sum[Len(d.rows)], R(Len(d.rows)))

\* C4: in every run, the metrics and the derived table that the memoized
\* calculate_metrics and get_precio_m2 return are the ones computed from that
\* run's filtered dataset.
C4_MemoizedResultsAreCurrent ==
    /\ pc \in {"metrics", "idle"} => metrics = calculate_metrics(df_filtered).ret
    /\ pc = "idle" => df_with_m2 = get_precio_m2(df_filtered).ret

\* C5 as stated: every derived price-per-area equals price / max(area, 1).
C5_PerRowIsPriceOverMaxAreaOne ==
    \A r \in DerivedRows : r.precio_m2 = PerRowMax(r)

\* C5 as amended: every derived price-per-area equals price / area, with an
\* area of exactly 0 (and no other area) replaced by 1, at each of the four
\* places: get_precio_m2, get_grouped_stats, render_conclusions_tab and the
\* mean calculate_metrics takes.
C5_PerRowReplacesOnlyZeroArea ==
    /\ \A r \in DerivedRows : r.precio_m2 = PerRow(r)
    /\ \A e \in MetricsEntries :
        Len(e.computed_from.rows) > 0 => e.value[2] = MeanPerRow(e.computed_from)

C5_Witness ==
    /\ pc = "idle"
    /\ \E r \in Rows(df_with_m2) : r.metros = Half /\ r.precio_m2 = R(2)
    /\ \E r \in Rows(precio_m2_df) : r.metros = Half
    /\ \E r \in Rows(conclusions) : r.metros = Half
    /\ \E e \in MetricsEntries : Half \in Areas(e.computed_from)

\* C6: a row whose area is 0 has a derived price-per-area equal to its price,
\* a finite number; a dataset whose areas are all 0 has a mean price-per-area
\* equal to its mean price.
C6_ZeroAreaGivesPrice ==
    /\ \A r \in DerivedRows :
        r.metros = R(0) => r.precio_m2 = r.precio /\ IsFinite(r.precio_m2)
    /\ \A e \in MetricsEntries :
        (Len(e.computed_from.rows) > 0 /\ Areas(e.computed_from) = {R(0)})
            => e.value[2] = e.value[1] /\ IsFinite(e.value[2])

C6_Witness ==
    /\ pc = "idle"
    /\ \E r \in Rows(df_with_m2) : r.metros = R(0) /\ r.precio_m2 = R(3)
    /\ \E r \in Rows(conclusions) : r.metros = R(0)
    /\ \E e \in MetricsEntries : Areas(e.computed_from) = {R(0)}

\* C7: for every non-empty filtered dataset, the second value calculate_metrics
\* returns is (sum of the per-row price-per-area) / (number of rows).
C7_SecondMetricIsMeanOfPerRow ==
    (pc \in {"metrics", "idle"} /\ Len(df_filtered.rows) > 0)
        => metrics[2] = MeanPerRow(df_filtered)

C9_ArgumentsUnchanged ==
    /\ df # NoFrame => df = read_csv(csv_file)
    /\ pc \in {"filtered", "metrics", "idle"} =>
        /\ df_filtered.columns = BaseColumns
        /\ df_filtered =
             apply_filters(df, criteria.precio_range, criteria.metros_range,
                           criteria.habitaciones, criteria.ubicaciones,
                           criteria.vendedor)
    /\ pc = "idle" =>
        /\ df_with_m2.columns = BaseColumns \cup {"precio_m2"}
        /\ "precio_m2" \notin BaseColumns

C9_Witness ==
    /\ pc = "idle"
    /\ Len(df_filtered.rows) = 2
    /\ Len(df_with_m2.rows) = 2
    /\ \A k \in 1..2 : DOMAIN df_filtered.rows[k] = BaseColumns \cup {"index"}

\* C12: in a pass whose filtered dataset has no rows, get_grouped_stats has
\* returned nine empty aggregates and calculate_metrics has returned the
\* sentinel NaN for each of the three means, neither raising.
C12_EmptyDatasetGivesEmptyAggregatesAndSentinels ==
    (pc \in {"metrics", "idle"} /\ Len(df_filtered.rows) = 0) =>
        /\ \A a \in DOMAIN stats : stats[a] = <<>>
        /\ DOMAIN stats =
             {"habitacion_count", "precio_hab", "ubicacion_count", "precio_ubicacion",
              "ascensor_counts", "planta_counts", "vendedor_count", "precio_vendedor",
              "precio_m2_vendedor"}
        /\ metrics = <<NaN, NaN, NaN>>

\* C13: a pass whose filter selections leave no row runs to its end: the
\* metrics header and each of the five views is emitted completely and no
\* exception is raised.
C13_EmptyResultPassCompletes ==
    (pc = "idle" /\ "sidebar" \in DOMAIN rendered /\ Len(df_filtered.rows) = 0) =>
        /\ error = ""
        /\ \A part \in Views \cup {"metrics"} :
            part \in DOMAIN rendered /\ rendered[part] = "complete"

----------------------------------------------------------------------------
(* SpecLoad: passes of main() over a file that is replaced, removed or      *)
(* damaged between passes while the clock of the cache advances.            *)

MaxClock == 5500

\* The amounts of time that pass between two runs.
ClockSteps == {1799, 1800, 1801}

LoadFiles ==
    { <<>>,
      << <<R(3), R(2), 1, "Centro", "Particular", "True", "Exterior", R(1)>> >>,
      << <<R(4), R(2), 2, "Retiro", "Agencia", "True", "Exterior", R(2)>>,
         <<R(1), Half, 1, "Retiro", "Particular", "True", "Exterior", R(0)>> >> }

LoadDisks ==
    { WholeFile,
      [status |-> "missing", columns |-> BaseColumns],
      [status |-> "malformed", columns |-> BaseColumns],
      [status |-> "ok", columns |-> BaseColumns \ {"precio"}],
      [status |-> "ok", columns |-> BaseColumns \ {"ascensor"}],
      [status |-> "ok", columns |-> BaseColumns \ {"numero_planta"}] }

InitLoad ==
    /\ csv_file \in LoadFiles
    /\ csv_disk \in LoadDisks
    /\ now = 0
    /\ rendered = NoOutput
    /\ df = NoFrame
    /\ criteria = NoCriteria
    /\ df_filtered = NoFrame
    /\ pc = "run"
    /\ session_state = NoSession
    /\ reset_btn = FALSE
    /\ cache = EmptyCache
    /\ metrics = NoMetrics
    /\ df_with_m2 = NoFrame
    /\ precio_m2_df = NoFrame
    /\ conclusions = NoFrame
    /\ stats = NoStats
    /\ error = ""
    /\ call_log = NoCalls

\* Time passes between two runs.
Tick ==
    /\ pc = "idle"
    /\ \E step \in ClockSteps :
        /\ now + step <= MaxClock
        /\ now' = now + step
    /\ UNCHANGED <<csv_file, csv_disk, rendered, df, criteria, df_filtered, pc,
                   session_state, reset_btn, cache, metrics, df_with_m2,
                   precio_m2_df, conclusions, stats, error, call_log>>

\* analisis.csv is replaced, removed or damaged between two runs.
WriteFile ==
    /\ pc = "idle"
    /\ \E file \in LoadFiles, disk \in LoadDisks :
        /\ <<file, disk>> # <<csv_file, csv_disk>>
        /\ csv_file' = file
        /\ csv_disk' = disk
    /\ UNCHANGED <<now, rendered, df, criteria, df_filtered, pc, session_state,
                   reset_btn, cache, metrics, df_with_m2, precio_m2_df, conclusions,
                   stats, error, call_log>>

\* The script runs again in the same session.
Rerun ==
    /\ pc = "idle"
    /\ StartRun
    /\ UNCHANGED <<session_state, reset_btn>>

NextLoad ==
    \/ MainSidebar
    \/ RenderMetrics
    \/ RenderTabs
    \/ Tick
    \/ WriteFile
    \/ Rerun

SpecLoad == InitLoad /\ [][NextLoad]_vars

----------------------------------------------------------------------------
(* Claims about loading (SpecLoad) *)

\* C14: a call of load_data made less than 3600 s after the call that stored
\* the table returns that table and does not read the file, whatever has
\* happened to the file since; only a call made 3600 s or more after it can
\* return something else.
C14_LoadDataServedFromCacheWithinWindow ==
    [][(/\ pc = "run"
        /\ Path \in DOMAIN cache["load_data"]
        /\ now < cache["load_data"][Path].stored_at + 3600)
          => /\ df' = cache["load_data"][Path].value
             /\ cache'["load_data"] = cache["load_data"]
             /\ error' \notin {"FileNotFoundError", "ParserError"}]_vars

\* A pass run 3599 s after the table was stored, on a file whose rows have
\* changed meanwhile, works on the stored table.
C14_Witness ==
    /\ pc = "filtered"
    /\ Path \in DOMAIN cache["load_data"]
    /\ now = cache["load_data"][Path].stored_at + 3599
    /\ df = cache["load_data"][Path].value
    /\ csv_disk = WholeFile
    /\ read_csv(csv_file) # df

\* C15: a pass in which loading the file or reading a required column fails
\* has emitted nothing of the page.
C15_LoadOrSchemaErrorRendersNothing ==
    error \in {"FileNotFoundError", "ParserError", "KeyError"} => rendered = NoOutput

----------------------------------------------------------------------------
(* SpecGrouped: get_grouped_stats called on tables of up to MaxLocations    *)
(* locations.                                                               *)

MaxLocations == 11

LocationNames ==
    <<"Arganzuela", "Barajas", "Carabanchel", "Centro", "Chamartin", "Chamberi",
      "Hortaleza", "Latina", "Moratalaz", "Retiro", "Salamanca", "Tetuan", "Usera">>

\* A file of n locations. Location j has j listings, all alike, of price j;
\* with t > 0, location t has as many listings as location t + 1 and their
\* price. The listings of a location are adjacent, those of location r + 1
\* first. extra = 1 appends one dearer listing of the first location,
\* extra = 2 a listing without location and extra = 3 a listing without
\* price, room count, seller, elevator flag and floor.
GroupedFile(n, t, r, extra) ==
    LET like(j) == IF j = t THEN j + 1 ELSE j
        listing(j) ==
            <<R(like(j)),
              CASE j % 4 = 0 -> R(0) [] j % 4 = 1 -> R(2) [] j % 4 = 2 -> Half [] OTHER -> R(50),
              (j % 3) + 1,
              LocationNames[j],
              IF j % 2 = 0 THEN "Agencia" ELSE "Particular",
              IF j % 3 = 0 THEN "False" ELSE "True",
              IF j % 5 = 0 THEN "Interior" ELSE "Exterior",
              R(j % 4)>>
        RECURSIVE block(_, _)
        block(j, c) == IF c = 0 THEN <<>> ELSE <<listing(j)>> \o block(j, c - 1)
        RECURSIVE blocks(_)
        blocks(i) ==
            IF i > n THEN <<>>
            ELSE LET j == ((i - 1 + r) % n) + 1
                 IN  block(j, like(j)) \o blocks(i + 1)
        listings == blocks(1)
    IN  CASE extra = 0 -> listings
          [] extra = 1 ->
                Append(listings, <<R(100), R(50), 2, LocationNames[1], "Agencia",
                                   "True", "Exterior", R(1)>>)
          [] extra = 2 ->
                Append(listings, <<R(1000), R(50), 2, NULL, "Particular",
                                   "True", "Exterior", NaN>>)
          [] extra = 3 ->
                Append(listings, <<NaN, R(0), NA, LocationNames[1], NULL,
                                   NULL, NULL, NaN>>)

\* Rows [("Particular", 100), ("Agencia", 200), ("Agencia", 300)].
ScenarioD ==
    << <<R(100), R(50), 1, "Centro", "Particular", "True", "Exterior", R(1)>>,
       <<R(200), R(0), 2, "Retiro", "Agencia", "False", "Interior", R(0)>>,
       <<R(300), R(100), 2, "Centro", "Agencia", "True", "Exterior", R(4)>> >>

GroupedFiles ==
    { GroupedFile(n, t, r, extra) :
        n \in 1..MaxLocations, t \in 0..2, r \in 0..2, extra \in 0..3 }
    \cup {ScenarioD, <<>>}

InitGrouped ==
    /\ csv_file \in GroupedFiles
    /\ csv_disk = WholeFile
    /\ now = 0
    /\ rendered = NoOutput
    /\ df = load_data(csv_file)
    /\ criteria = NoCriteria
    /\ df_filtered = EmptyFrame
    /\ pc = "loaded"
    /\ session_state = NoSession
    /\ reset_btn = FALSE
    /\ cache = EmptyCache
    /\ metrics = NoMetrics
    /\ df_with_m2 = EmptyFrame
    /\ precio_m2_df = EmptyFrame
    /\ conclusions = EmptyFrame
    /\ stats = NoStats
    /\ error = ""
    /\ call_log = NoCalls

CallGetGroupedStats ==
    /\ pc = "loaded"
    /\ LET g == get_grouped_stats(df)
       IN  /\ stats' \in g.ret
           /\ precio_m2_df' = g.precio_m2_df
           /\ df' = g._df
    /\ pc' = "grouped"
    /\ UNCHANGED <<csv_file, csv_disk, now, rendered, criteria, df_filtered,
                   session_state, reset_btn, cache, metrics, df_with_m2, conclusions,
                   error, call_log>>

NextGrouped == CallGetGroupedStats

SpecGrouped == InitGrouped /\ [][NextGrouped]_vars

----------------------------------------------------------------------------
(* Claims about get_grouped_stats (SpecGrouped) *)

NonNullLocations(d) == { d.rows[k].ubicacion : k \in 1..Len(d.rows) } \ {NULL}

\* (sum of the prices of the listings of location u) / (their number).
MeanPrice(d, u) ==
    LET at == { k \in 1..Len(d.rows) : d.rows[k].ubicacion = u }
        sum[k \in 0..Len(d.rows)] ==
            IF k = 0 THEN R(0)
            ELSE IF k \in at THEN RatAdd(sum[k - 1], d.rows[k].precio)
            ELSE sum[k - 1]
    IN  RatDiv(sum[Len(d.rows)], R(Cardinality(at)))

FirstOccurrence(d, u) ==
    CHOOSE k \in 1..Len(d.rows) :
        /\ d.rows[k].ubicacion = u
        /\ \A j \in 1..(k - 1) : d.rows[j].ubicacion # u

\* At most 10 entries, one per location, each with the location's mean price,
\* in non-increasing order of mean price, no location left out having a
\* higher mean price than a location kept.
TopTenByMeanPrice(d, pu) ==
    LET kept == { pu[k].ubicacion : k \in 1..Len(pu) }
    IN  /\ Len(pu) <= 10
        /\ Len(pu) = IF Cardinality(NonNullLocations(d)) < 10
                     THEN Cardinality(NonNullLocations(d)) ELSE 10
        /\ kept \subseteq NonNullLocations(d)
        /\ Cardinality(kept) = Len(pu)
        /\ \A k \in 1..Len(pu) : pu[k].precio = MeanPrice(d, pu[k].ubicacion)
        /\ \A k \in 1..(Len(pu) - 1) : RatGE(pu[k].precio, pu[k + 1].precio)
        /\ \A u \in NonNullLocations(d) \ kept :
            \A k \in 1..Len(pu) : RatLE(MeanPrice(d, u), pu[k].precio)

\* Entries with equal mean price stand in the order of their first listing
\* in the table, and a location left out at the cut was first listed after
\* every kept location of the same mean price.
TiesByFirstOccurrence(d, pu) ==
    LET kept == { pu[k].ubicacion : k \in 1..Len(pu) }
    IN  /\ \A j, k \in 1..Len(pu) :
            (j < k /\ pu[j].precio = pu[k].precio)
                => FirstOccurrence(d, pu[j].ubicacion) < FirstOccurrence(d, pu[k].ubicacion)
        /\ \A u \in NonNullLocations(d) \ kept :
            \A k \in 1..Len(pu) :
                pu[k].precio = MeanPrice(d, u)
                    => FirstOccurrence(d, pu[k].ubicacion) < FirstOccurrence(d, u)

\* C10: 'precio_ubicacion' has at most 10 entries, holds the 10 locations of highest mean
\* price in descending order, locations of equal mean price ordered (and cut)
\* by first occurrence in the dataset.
C10_TopTenTiesByFirstOccurrence ==
    pc = "grouped" =>
        /\ TopTenByMeanPrice(df, stats.precio_ubicacion)
        /\ TiesByFirstOccurrence(df, stats.precio_ubicacion)

\* The number of listings of location u.
CountOf(d, u) == Cardinality({ k \in 1..Len(d.rows) : d.rows[k].ubicacion = u })

\* At most 10 entries, one per non-null location, each with the number of
\* the location's listings, in non-increasing order of that number, no
\* location left out having more listings than a location kept.
TopTenByCount(d, uc) ==
    LET kept == { uc[k].index : k \in 1..Len(uc) }
    IN  /\ Len(uc) <= 10
        /\ Len(uc) = IF Cardinality(NonNullLocations(d)) < 10
                     THEN Cardinality(NonNullLocations(d)) ELSE 10
        /\ kept \subseteq NonNullLocations(d)
        /\ Cardinality(kept) = Len(uc)
        /\ \A k \in 1..Len(uc) : uc[k].count = R(CountOf(d, uc[k].index))
        /\ \A k \in 1..(Len(uc) - 1) : RatGE(uc[k].count, uc[k + 1].count)
        /\ \A u \in NonNullLocations(d) \ kept :
            \A k \in 1..Len(uc) : CountOf(d, u) <= CountOf(d, uc[k].index)

\* Entries with equal counts stand in the order of their first listing.
CountTiesByFirstOccurrence(d, uc) ==
    \A j, k \in 1..Len(uc) :
        (j < k /\ uc[j].count = uc[k].count)
            => FirstOccurrence(d, uc[j].index) < FirstOccurrence(d, uc[k].index)

\* C11: 'ubicacion_count' has at most 10 entries, holds the 10 most frequent
\* non-null locations in descending order of count, locations of equal count
\* in the order of their first occurrence in the dataset.
C11_TopTenCountsTiesByFirstOccurrence ==
    pc = "grouped" =>
        /\ TopTenByCount(df, stats.ubicacion_count)
        /\ CountTiesByFirstOccurrence(df, stats.ubicacion_count)

\* The rows of d whose column has the value key.
RowsOf(d, column, key) == { k \in 1..Len(d.rows) : d.rows[k][column] = key }

\* (sum of the values at the positions in at that have one) / (their number).
MeanOver(values, at) ==
    LET having == { k \in at : values[k] # NaN }
        sum[k \in 0..Len(values)] ==
            IF k = 0 THEN R(0)
            ELSE IF k \in having THEN RatAdd(sum[k - 1], values[k])
            ELSE sum[k - 1]
    IN  RatDiv(sum[Len(values)], R(Cardinality(having)))

Sellers(d) == { d.rows[k].vendedor : k \in 1..Len(d.rows) } \ {NULL}

\* C16: 'precio_vendedor' has exactly one entry for each seller type present
\* in the dataset, holding (sum of the prices of the rows of that seller
\* type) / (their number); Scenario D gives Particular 100 and Agencia 250.
C16_MeanPricePerSeller ==
    pc = "grouped" =>
        LET pv == stats.precio_vendedor
        IN  /\ { pv[k].vendedor : k \in 1..Len(pv) } = Sellers(df)
            /\ Len(pv) = Cardinality(Sellers(df))
            /\ \A k \in 1..Len(pv) :
                pv[k].precio = MeanOver([j \in 1..Len(df.rows) |-> df.rows[j].precio],
                                        RowsOf(df, "vendedor", pv[k].vendedor))
            /\ csv_file = ScenarioD =>
                { <<pv[k].vendedor, pv[k].precio>> : k \in 1..Len(pv) } =
                    { <<"Particular", R(100)>>, <<"Agencia", R(250)>> }

C16_Witness ==
    /\ pc = "grouped"
    /\ csv_file = ScenarioD
    /\ Len(stats.precio_vendedor) = 2

\* C17 as stated: 'precio_m2_vendedor' holds, for each seller type, the mean
\* over that seller's rows of price / max(area, 1).
C17_MeanOfPriceOverMaxAreaOnePerSeller ==
    pc = "grouped" =>
        LET pmv == stats.precio_m2_vendedor
        IN  /\ { pmv[k].vendedor : k \in 1..Len(pmv) } = Sellers(df)
            /\ \A k \in 1..Len(pmv) :
                pmv[k].precio_m2 =
                    MeanOver([j \in 1..Len(df.rows) |-> PerRowMax(df.rows[j])],
                             RowsOf(df, "vendedor", pmv[k].vendedor))

\* C17 as amended: 'precio_m2_vendedor' holds, for each seller type, the mean
\* over that seller's rows of the per-row price / area with an area of
\* exactly 0 replaced by 1; it is computed from the per-row values, not from
\* the seller's mean price and mean area.
C17_MeanOfPerRowPerSeller ==
    pc = "grouped" =>
        LET pmv == stats.precio_m2_vendedor
        IN  /\ { pmv[k].vendedor : k \in 1..Len(pmv) } = Sellers(df)
            /\ Len(pmv) = Cardinality(Sellers(df))
            /\ \A k \in 1..Len(pmv) :
                pmv[k].precio_m2 =
                    MeanOver([j \in 1..Len(df.rows) |-> PerRow(df.rows[j])],
                             RowsOf(df, "vendedor", pmv[k].vendedor))

\* Scenario D: Agencia has (200, area 0) and (300, area 100), mean of the
\* per-row values (200 + 3) / 2, where mean price / mean area is 250 / 50.
C17_Witness ==
    /\ pc = "grouped"
    /\ csv_file = ScenarioD
    /\ \E k \in 1..Len(stats.precio_m2_vendedor) :
        /\ stats.precio_m2_vendedor[k].vendedor = "Agencia"
        /\ stats.precio_m2_vendedor[k].precio_m2 = Rat(203, 2)

\* C18: 'habitacion_count' has one entry per distinct room count of the
\* dataset, holding the number of rows with that room count, the entries in
\* ascending order of room count.
C18_RoomCountsAscending ==
    pc = "grouped" =>
        LET hc == stats.habitacion_count
            rooms == { df.rows[k].habitaciones : k \in 1..Len(df.rows) } \ {NA}
        IN  /\ { hc[k].index : k \in 1..Len(hc) } = rooms
            /\ Len(hc) = Cardinality(rooms)
            /\ \A k \in 1..Len(hc) :
                hc[k].count = R(Cardinality(RowsOf(df, "habitaciones", hc[k].index)))
            /\ \A k \in 1..(Len(hc) - 1) : hc[k].index < hc[k + 1].index

\* Three room counts, the rarest of them the smallest.
C18_Witness ==
    /\ pc = "grouped"
    /\ Len(stats.habitacion_count) = 3
    /\ RatLE(stats.habitacion_count[1].count, stats.habitacion_count[2].count)
    /\ stats.habitacion_count[1].count # stats.habitacion_count[2].count

----------------------------------------------------------------------------
(* Claims about the filter options and the passes of main() (Spec) *)

\* C19: get_filter_options returns the distinct room counts in ascending
\* order without duplicates, the distinct locations without the null
\* location and the distinct seller types: every value that occurs in a row
\* (other than a null location) is an option, and every option occurs in a
\* row.
C19_OptionsAreTheDistinctValues ==
    \A d \in DOMAIN cache["get_filter_options"] :
        LET o == cache["get_filter_options"][d].value
            h == o.habitaciones_opts
            u == o.ubicaciones_opts
            v == o.vendedor_opts
        IN  /\ \A k \in 1..(Len(h) - 1) : h[k] < h[k + 1]
            /\ { h[k] : k \in 1..Len(h) } =
                    { d.rows[k].habitaciones : k \in 1..Len(d.rows) }
            /\ { u[k] : k \in 1..Len(u) } =
                    { d.rows[k].ubicacion : k \in 1..Len(d.rows) } \ {NULL}
            /\ \A j, k \in 1..Len(u) : u[j] = u[k] => j = k
            /\ { v[k] : k \in 1..Len(v) } =
                    { d.rows[k].vendedor : k \in 1..Len(d.rows) }
            /\ \A j, k \in 1..Len(v) : v[j] = v[k] => j = k

\* The options of a file whose room counts stand in descending order and one
\* of whose listings has no location.
C19_Witness ==
    /\ pc = "filtered"
    /\ df \in DOMAIN cache["get_filter_options"]
    /\ Len(df.rows) = 2
    /\ df.rows[1].habitaciones > df.rows[2].habitaciones
    /\ df.rows[1].ubicacion = NULL
    /\ cache["get_filter_options"][df].value.habitaciones_opts =
            <<df.rows[2].habitaciones, df.rows[1].habitaciones>>
    /\ Len(cache["get_filter_options"][df].value.ubicaciones_opts) = 1

\* C20: each interaction triggers exactly one full pass (filter, aggregate,
\* render) that runs to completion before the next interaction is accepted:
\* a pass that has started is not started again, and a pass that ends has
\* rendered every part of the page.
C20_OneCompletePassPerInteraction ==
    [][ /\ pc = "run" => pc' # "run"
        /\ (pc # "idle" /\ pc' = "idle") =>
                /\ error' = ""
                /\ \A part \in Parts :
                    /\ part \in DOMAIN rendered'
                    /\ rendered'[part] = "complete" ]_vars

DefaultCriteria(o) ==
    [precio_range |-> Defaults(o).precio_slider,
     metros_range |-> Defaults(o).metros_slider,
     habitaciones |-> Defaults(o).habitaciones_multiselect,
     ubicaciones |-> Defaults(o).ubicacion_multiselect,
     vendedor |-> Defaults(o).vendedor_multiselect]

\* C22: in the initial session state and after a reset, with the ranges
\* (min, max) of get_filter_options and every room, location and seller
\* option selected, the filtered dataset is the full dataset: no row is
\* excluded, rows without location and rows at a fractional minimum or
\* maximum included.
C22_DefaultsKeepEveryRow ==
    (/\ pc = "filtered"
     /\ df \in DOMAIN cache["get_filter_options"]
     /\ criteria = DefaultCriteria(cache["get_filter_options"][df].value)) =>
        df_filtered = df

\* The keys of the five filter widgets.
FilterKeys ==
    {"precio_slider", "metros_slider", "habitaciones_multiselect",
     "ubicacion_multiselect", "vendedor_multiselect"}

\* The five filter selections held in session state.
Selections(state) == [k \in FilterKeys \cap DOMAIN state |-> state[k]]

\* C23: after a click on the reset button, whatever the five selections are,
\* the run the click starts sets all five to their defaults and nothing
\* changes them until that pass has ended; and reset_clicked is False at the
\* end of every pass that got as far as the sidebar, so the reset is applied
\* once per click.
C23_ResetRestoresDefaultsOnce ==
    /\ [][(pc = "run" /\ reset_btn /\ pc' # "idle") =>
            Selections(session_state') =
                Defaults(cache'["get_filter_options"][df'].value)]_vars
    /\ [][(pc # "idle" /\ ~reset_btn /\ FilterKeys \subseteq DOMAIN session_state) =>
            Selections(session_state') = Selections(session_state)]_vars
    /\ []((pc = "idle" /\ "sidebar" \in DOMAIN rendered) =>
            session_state.reset_clicked = FALSE)

\* The run a click on reset has restarted, in a session where criteria other
\* than the defaults had been applied.
C23_Witness ==
    /\ pc = "run"
    /\ "sidebar" \in DOMAIN rendered
    /\ call_log.other
    /\ df \in DOMAIN cache["get_filter_options"]
    /\ Selections(session_state) = Defaults(cache["get_filter_options"][df].value)
    /\ session_state.reset_clicked = FALSE

\* C24: a selection held in session state changes only by the user's action
\* on its own widget, which leaves the other four selections as they are, or
\* by a reset; the default initialisation of main() does not overwrite a
\* selection that exists.
C24_SelectionChangesOnlyByItsWidgetOrReset ==
    [][\A k \in FilterKeys \cap DOMAIN session_state :
            session_state'[k] # session_state[k] =>
                \/ /\ pc = "idle"
                   /\ \A j \in FilterKeys \ {k} : session_state'[j] = session_state[j]
                \/ /\ pc = "run"
                   /\ reset_btn]_vars

\* A pass over a room selection the user has narrowed, the other four
\* selections being the defaults.
C24_Witness ==
    /\ pc = "filtered"
    /\ df \in DOMAIN cache["get_filter_options"]
    /\ LET default == Defaults(cache["get_filter_options"][df].value)
       IN  /\ session_state.habitaciones_multiselect # default.habitaciones_multiselect
           /\ session_state.habitaciones_multiselect # {}
           /\ \A j \in FilterKeys \ {"habitaciones_multiselect"} :
                session_state[j] = default[j]
    /\ criteria.habitaciones = session_state.habitaciones_multiselect

----------------------------------------------------------------------------
(* SpecNarrow: apply_filters called with criteria, then with criteria       *)
(* narrowed in one of the five arguments, then on its own output.           *)

\* [inner[1], inner[2]] lies within [outer[1], outer[2]].
SubRange(inner, outer) == RatGE(inner[1], outer[1]) /\ RatLE(inner[2], outer[2])

\* The criteria got from c by narrowing one range to a sub-range or one
\* non-empty list to a non-empty sublist.
Narrowed(c) ==
    { [c EXCEPT !.precio_range = r] :
        r \in { r \in PrecioRanges : SubRange(r, c.precio_range) } }
    \cup { [c EXCEPT !.metros_range = r] :
            r \in { r \in MetrosRanges : SubRange(r, c.metros_range) } }
    \cup { [c EXCEPT !.habitaciones = l] : l \in (SUBSET c.habitaciones) \ { {} } }
    \cup { [c EXCEPT !.ubicaciones = l] : l \in (SUBSET c.ubicaciones) \ { {} } }
    \cup { [c EXCEPT !.vendedor = l] : l \in (SUBSET c.vendedor) \ { {} } }

\* A second call on the same table with narrowed criteria.
NarrowCriteria ==
    /\ pc = "filtered"
    /\ \E c \in Narrowed(criteria) :
        /\ criteria' = c
        /\ df_filtered' = apply_filters(df, c.precio_range, c.metros_range,
                                        c.habitaciones, c.ubicaciones, c.vendedor)
    /\ pc' = "narrowed"
    /\ UNCHANGED <<csv_file, csv_disk, now, rendered, df, session_state, reset_btn,
                   cache, metrics, df_with_m2, precio_m2_df, conclusions, stats,
                   error, call_log>>

\* A call with the same criteria on the table the last call returned.
ReapplyFilters ==
    /\ pc = "narrowed"
    /\ df_filtered' = apply_filters(df_filtered, criteria.precio_range,
                                    criteria.metros_range, criteria.habitaciones,
                                    criteria.ubicaciones, criteria.vendedor)
    /\ pc' = "reapplied"
    /\ UNCHANGED <<csv_file, csv_disk, now, rendered, df, criteria, session_state,
                   reset_btn, cache, metrics, df_with_m2, precio_m2_df, conclusions,
                   stats, error, call_log>>

NextNarrow ==
    \/ CallApplyFilters
    \/ NarrowCriteria
    \/ ReapplyFilters

SpecNarrow == InitFilter /\ [][NextNarrow]_vars

\* The rows of a are rows of b, in the order they have in b.
IsSubsequence(a, b) ==
    /\ a.columns = b.columns
    /\ \A k \in 1..Len(a.rows) :
        \E j \in 1..Len(b.rows) :
            /\ b.rows[j] = a.rows[k]
            /\ k > 1 => \E i \in 1..(j - 1) : b.rows[i] = a.rows[k - 1]

\* C25: apply_filters is monotone in its criteria while the lists stay
\* non-empty: with one range narrowed to a sub-range, or one non-empty list
\* replaced by a non-empty sublist, the output is a sub-sequence of the
\* output before; and apply_filters with the same criteria on its own output
\* returns that output unchanged.
C25_MonotoneAndIdempotent ==
    [][/\ (pc = "filtered" /\ pc' = "narrowed") =>
            IsSubsequence(df_filtered', df_filtered)
       /\ pc' = "reapplied" => df_filtered' = df_filtered]_vars

\* The output of the narrowed criteria, two of three rows, filtered again.
C25_Witness ==
    /\ pc = "reapplied"
    /\ Len(df.rows) = 3
    /\ Len(df_filtered.rows) = 2
    /\ criteria.habitaciones # {}
    /\ criteria.ubicaciones # {}

----------------------------------------------------------------------------
(* Claims about the count aggregates (SpecGrouped) *)

\* The sum of the counts of a value_counts Series.
SumOfCounts(series) ==
    LET sum[k \in 0..Len(series)] ==
            IF k = 0 THEN R(0) ELSE RatAdd(sum[k - 1], series[k].count)
    IN  sum[Len(series)]

\* The number of rows of d that have a value in column.
NotNull(d, column) ==
    Cardinality({ k \in 1..Len(d.rows) : ~isna(column, d.rows[k][column]) })

\* Series.get(key, default) on a value_counts Series.
Get(series, key, default) ==
    IF \E k \in 1..Len(series) : series[k].index = key
    THEN (CHOOSE e \in { series[k] : k \in 1..Len(series) } : e.index = key).count
    ELSE default

\* C26: the count aggregates of get_grouped_stats partition the rows: the
\* counts of 'vendedor_count' add up to the number of rows with a seller
\* type, those of 'habitacion_count' to the number of rows with a room count
\* and those of 'ascensor_counts' to the number of rows with an elevator
\* flag; the Particular and the Agencia count render_metrics takes from
\* 'vendedor_count' do not exceed the number of rows of the table.
C26_CountsPartitionTheRows ==
    pc = "grouped" =>
        /\ SumOfCounts(stats.vendedor_count) = R(NotNull(df, "vendedor"))
        /\ SumOfCounts(stats.habitacion_count) = R(NotNull(df, "habitaciones"))
        /\ SumOfCounts(stats.ascensor_counts) = R(NotNull(df, "ascensor"))
        /\ RatLE(Get(stats.vendedor_count, "Particular", R(0)), R(Len(df.rows)))
        /\ RatLE(Get(stats.vendedor_count, "Agencia", R(0)), R(Len(df.rows)))

\* A table with both seller types and a listing that has no seller type, no
\* room count and no elevator flag.
C26_Witness ==
    /\ pc = "grouped"
    /\ NotNull(df, "vendedor") < Len(df.rows)
    /\ NotNull(df, "habitaciones") < Len(df.rows)
    /\ NotNull(df, "ascensor") < Len(df.rows)
    /\ Len(stats.vendedor_count) = 2
    /\ Len(stats.habitacion_count) = 3
    /\ Len(stats.ascensor_counts) = 2

====
